---- MODULE Spec2Model ----
(***************************************************************************)
(* The request lifecycle of the Gemini MCP server: MCPServer (server.ts),  *)
(* ProtocolManager (protocol.ts) and MCPHandlers (handlers.ts).            *)
(*                                                                         *)
(* One event-loop turn is one action.  An async function runs up to its    *)
(* first await inside the turn that called it and every continuation is a  *)
(* turn of its own, so the turns of different requests interleave at the   *)
(* awaits exactly as the event loop allows.                                *)
(***************************************************************************)
EXTENDS Integers, Sequences, FiniteSets, TLC

\* ------------------------------------------------------------------ bounds
MaxConns == 2
MaxId == 1
MaxTasks == 2
MaxChunks == 2
\* the longest idle time told apart, in ticks: one more than the threshold
MaxIdle == 3

Conns == 1..MaxConns
Ids == 0..MaxId
\* the id of an error response when the request had no usable id (JSON null)
NullId == 0 - 1

\* ------------------------------------------------------------ ERROR_CODES
PARSE_ERROR == -32700
INVALID_REQUEST == -32600
METHOD_NOT_FOUND == -32601
INVALID_PARAMS == -32602
INTERNAL_ERROR == -32603
SERVER_NOT_INITIALIZED == -32002
GEMINI_API_ERROR == -32100
GEMINI_RATE_LIMIT == -32101
GEMINI_INVALID_TOKEN == -32102
GEMINI_CONTENT_FILTER == -32103

\* An MCPError: its code, and a tag standing for its message text.
Err(code, why) == [code |-> code, why |-> why]
NoError == [code |-> 0, why |-> "none"]

VARIABLES
  protocolInitialized,  \* ProtocolManager.initialized
  shutdownRequested,    \* ProtocolManager.shutdownRequested
  phase,                \* progress of MCPServer.shutdown: running, draining (awaiting
                        \* the close promises), stopping (awaiting the servers' close
                        \* callbacks), terminated (process.exit)
  clients,              \* MCPServer.clients: its keys, in insertion order
  readyState,           \* ws.readyState of each connection's socket (none: not yet
                        \* accepted; destroyed: terminated, its 'close' event pending)
  initialized,          \* ConnectionState.initialized
  activeRequests,       \* ConnectionState.activeRequests
  controllers,          \* MCPHandlers.activeRequests: id -> the task owning the AbortController
  tasks,                \* the invocations of the message handler that passed admission
                        \* and have not returned yet, one slot each
  closeWait,            \* connections whose close promise in shutdown() is unresolved
  touched,              \* connections on which a message has been processed
  sent,                 \* the response produced in this turn
  finished,             \* the invocation that returned in this turn, as it ended
  idle,                 \* the time since ConnectionState.lastMessageAt, in ticks
  swept                 \* what the latest run of monitorConnections did to each connection

vars == <<protocolInitialized, shutdownRequested, phase, clients, readyState, initialized,
          activeRequests, controllers, tasks, closeWait, touched, sent, finished, idle, swept>>

\* A response: its kind (result, chunk: done:false, done: done:true, error), the
\* id it carries, the chunk it carries, its error, the slot of the invocation
\* that produced it (0: the catch block, before the request was tracked), the
\* connection that issued the request, the connection it was written to
\* (0: to none), and whether the turn that produced it is the one that
\* processed the first message of the issuing connection.
Response(kind, id, seq, err, slot, from, to, opening) ==
  [kind |-> kind, id |-> id, seq |-> seq, err |-> err, slot |-> slot, from |-> from, to |-> to,
   opening |-> opening]
Nothing == Response("none", NullId, 0, NoError, 0, 0, 0, FALSE)

\* ---------------------------------------------------------------- messages
Msg(shape, method, id, arg, target) ==
  [shape |-> shape, method |-> method, id |-> id, arg |-> arg, target |-> target]

\* arg: the method's required parameter (prompt, requestId, configuration) is
\* absent, the empty string, or given; target: the value of cancel's requestId.
Messages ==
  {Msg("request", "initialize", i, "absent", 0) : i \in Ids}
  \cup {Msg("request", mth, i, a, 0) :
          mth \in {"generate", "stream"}, i \in Ids, a \in {"absent", "empty", "given"}}
  \cup {Msg("request", "cancel", i, "given", g) : i \in Ids, g \in Ids}
  \cup {Msg("request", mth, i, a, 0) :
          mth \in {"cancel", "configure"}, i \in Ids, a \in {"absent"}}
  \cup {Msg("request", "configure", i, "given", 0) : i \in Ids}
  \cup {Msg("request", mth, i, "absent", 0) : mth \in {"shutdown", "exit", "unknown"}, i \in Ids}
  \cup {Msg("notification", mth, 0, "absent", 0) : mth \in {"exit", "initialize"}}
  \cup {Msg("badjson", "none", 0, "absent", 0)}
  \cup {Msg("badtag", "generate", i, "given", 0) : i \in Ids}

\* request?.id: the parsed message carries an id
HasId(m) == m.shape \in {"request", "badtag"}
\* JavaScript truthiness of an id: 0 is falsy
Truthy(id) == id # 0

\* ------------------------------------------------------------------- tasks
Slots == 1..MaxTasks

FreeTask ==
  [conn |-> 0, id |-> 0, method |-> "none", arg |-> "none", pc |-> "free", err |-> NoError,
   aborted |-> FALSE, delivered |-> 0, abortedAt |-> 0, fin |-> "none",
   chunks |-> 0, terminals |-> 0]

NewTask(c, m, pc, err) ==
  [conn |-> c, id |-> m.id, method |-> m.method, arg |-> m.arg, pc |-> pc, err |-> err,
   aborted |-> FALSE, delivered |-> 0, abortedAt |-> 0, fin |-> "none",
   chunks |-> 0, terminals |-> 0]

Live == {t \in Slots : tasks[t].pc # "free"}

\* The continuations queued as microtasks by a turn run before the event loop
\* takes its next event: no timer, signal, socket or backend event is handled
\* while a request awaits only the return of an async handler.  (Messages
\* parsed from one chunk of socket data are the exception: ws emits them in
\* one turn, so a later message of the same connection can get in first.)
NoMicrotask == \A t \in Slots : tasks[t].pc # "respond"

Init ==
  /\ protocolInitialized = FALSE
  /\ shutdownRequested = FALSE
  /\ phase = "running"
  /\ clients = <<>>
  /\ readyState = [c \in Conns |-> "none"]
  /\ initialized = [c \in Conns |-> FALSE]
  /\ activeRequests = [c \in Conns |-> {}]
  /\ controllers = [i \in Ids |-> 0]
  /\ tasks = [t \in Slots |-> FreeTask]
  /\ closeWait = {}
  /\ touched = {}
  /\ sent = Nothing
  /\ finished = FreeTask
  /\ idle = [c \in Conns |-> 0]
  /\ swept = [c \in Conns |-> "none"]

\* wss 'connection': handleConnection registers a fresh ConnectionState.  The
\* front door takes connections until shutdown() calls wss.close, that is
\* also while shutdown() waits for its close promises.
Connect(c) ==
  /\ NoMicrotask
  /\ phase \in {"running", "draining"}
  /\ readyState[c] = "none"
  /\ \A d \in Conns : d < c => readyState[d] # "none"
  /\ readyState' = [readyState EXCEPT ![c] = "open"]
  /\ clients' = Append(clients, c)
  /\ sent' = Nothing
  /\ finished' = FreeTask
  /\ UNCHANGED <<idle, swept, protocolInitialized, shutdownRequested, phase, initialized, activeRequests,
                 controllers, tasks, closeWait, touched>>

\* ------------------------------------------------------------- protocol.ts
\* validateState without its first check, as if markAsInitialized had run
ValidateState_ShutdownOnly(method) ==
  IF shutdownRequested /\ method # "exit"
    THEN Err(INVALID_REQUEST, "shutting-down")
  ELSE NoError

\* validateState without its second check, as if requestShutdown set nothing
ValidateState_NoShutdownCheck(method) ==
  IF method # "initialize" /\ ~protocolInitialized
    THEN Err(SERVER_NOT_INITIALIZED, "not-initialized")
  ELSE NoError

\* ProtocolManager.validateState: the error it throws, or NoError
ValidateState(method) ==
  IF method # "initialize" /\ ~protocolInitialized
    THEN Err(SERVER_NOT_INITIALIZED, "not-initialized")
  ELSE IF shutdownRequested /\ method # "exit"
    THEN Err(INVALID_REQUEST, "shutting-down")
  ELSE NoError

\* validateRequest accepting every request
ValidateRequest_Any(m) == TRUE

\* validateRequest(request, [param]): params exists and names the parameter
ValidateRequest(m) == m.arg # "absent"

\* ------------------------------------------------------------- handlers.ts
\* MCPHandlers.handleApiError: the MCPError made of a backend failure
HandleApiError(failure) ==
  IF failure = "opaque" THEN Err(INTERNAL_ERROR, "unexpected")
  ELSE IF failure = "key" THEN Err(GEMINI_INVALID_TOKEN, "api:key")
  ELSE IF failure = "quota" THEN Err(GEMINI_RATE_LIMIT, "api:quota")
  ELSE Err(GEMINI_API_ERROR, "api:" \o failure)

\* the ways a backend call fails here: an error whose message names a quota,
\* and a thrown value without a message
Failures == {"quota", "opaque"}

\* MCPHandlers.cancelRequest / the abort in handleCancel, for a set of ids:
\* the controller registered under each id is aborted ...
AbortTasks(ts, ctl, ids) ==
  [t \in Slots |->
     IF \E i \in ids : ctl[i] = t
       THEN [ts[t] EXCEPT !.aborted = TRUE,
                          !.abortedAt = IF ts[t].aborted THEN @ ELSE ts[t].delivered]
       ELSE ts[t]]
\* ... and the id is deleted from the map
ClearControllers(ctl, ids) == [i \in Ids |-> IF i \in ids THEN 0 ELSE ctl[i]]

\* handleCancel with the alternative left commented out in its else branch:
\* a target without a registered controller is an error
HandleCancel_Strict(m) ==
  IF ~ValidateRequest(m)
    THEN [pc |-> "respond", err |-> Err(INVALID_PARAMS, "params"),
          register |-> FALSE, abort |-> {}]
  ELSE IF controllers[m.target] = 0
    THEN [pc |-> "respond", err |-> Err(INVALID_REQUEST, "not-found"),
          register |-> FALSE, abort |-> {}]
  ELSE [pc |-> "respond", err |-> NoError, register |-> FALSE, abort |-> {m.target}]

\* handleCancel acknowledging without looking the controller up
HandleCancel_Inert(m) ==
  IF ~ValidateRequest(m)
    THEN [pc |-> "respond", err |-> Err(INVALID_PARAMS, "params"),
          register |-> FALSE, abort |-> {}]
  ELSE [pc |-> "respond", err |-> NoError, register |-> FALSE, abort |-> {}]

\* MCPHandlers.handleCancel: without a requestId parameter it throws; with
\* one it aborts and forgets the controller registered under that id, if
\* there is one, and returns {cancelled: true} either way
HandleCancel(m) ==
  IF ~ValidateRequest(m)
    THEN [pc |-> "respond", err |-> Err(INVALID_PARAMS, "params"),
          register |-> FALSE, abort |-> {}]
  ELSE [pc |-> "respond", err |-> NoError, register |-> FALSE, abort |-> {m.target}]

\* handleRequest with a switch that has no default branch
Dispatch_NoDefault(m) ==
  IF m.method = "initialize"
    THEN [pc |-> "respond", err |-> NoError, register |-> FALSE, abort |-> {}]
  ELSE IF m.method \in {"generate", "stream"}
    THEN IF ~ValidateRequest(m)
           THEN [pc |-> "respond", err |-> Err(INVALID_PARAMS, "params"),
                 register |-> FALSE, abort |-> {}]
           ELSE [pc |-> IF m.method = "generate" THEN "awaitGenerate" ELSE "awaitChunk",
                 err |-> NoError, register |-> TRUE, abort |-> {}]
  ELSE IF m.method = "cancel" THEN HandleCancel(m)
  ELSE IF m.method = "configure"
    THEN [pc |-> "respond",
          err |-> IF ValidateRequest(m) THEN NoError ELSE Err(INVALID_PARAMS, "params"),
          register |-> FALSE, abort |-> {}]
  ELSE [pc |-> "respond", err |-> NoError,
        register |-> FALSE, abort |-> {}]

\* MCPHandlers.handleRequest, up to the first await that leaves the turn:
\* where the task is suspended, the error thrown (NoError: a result), whether
\* an AbortController is registered under the request id, and the ids aborted.
Dispatch(m) ==
  IF m.method = "initialize"
    THEN [pc |-> "respond", err |-> NoError, register |-> FALSE, abort |-> {}]
  ELSE IF m.method \in {"generate", "stream"}
    THEN IF ~ValidateRequest(m)
           THEN [pc |-> "respond", err |-> Err(INVALID_PARAMS, "params"),
                 register |-> FALSE, abort |-> {}]
           ELSE [pc |-> IF m.method = "generate" THEN "awaitGenerate" ELSE "awaitChunk",
                 err |-> NoError, register |-> TRUE, abort |-> {}]
  ELSE IF m.method = "cancel" THEN HandleCancel(m)
  ELSE IF m.method = "configure"
    THEN [pc |-> "respond",
          err |-> IF ValidateRequest(m) THEN NoError ELSE Err(INVALID_PARAMS, "params"),
          register |-> FALSE, abort |-> {}]
  ELSE [pc |-> "respond", err |-> Err(METHOD_NOT_FOUND, "method"),
        register |-> FALSE, abort |-> {}]

\* --------------------------------------------------------------- server.ts
\* the per-connection check without the guard against a second initialize
CheckInitialized_Repeatable(c, method) ==
  IF method = "initialize" THEN NoError
  ELSE IF ~initialized[c] /\ method \notin {"shutdown", "exit"}
    THEN Err(SERVER_NOT_INITIALIZED, "not-initialized")
  ELSE NoError

\* the per-connection initialization check of the message handler
CheckInitialized(c, method) ==
  IF method = "initialize"
    THEN IF initialized[c] THEN Err(INVALID_REQUEST, "already-initialized") ELSE NoError
  ELSE IF ~initialized[c] /\ method \notin {"shutdown", "exit"}
    THEN Err(SERVER_NOT_INITIALIZED, "not-initialized")
  ELSE NoError

\* what the message handler throws before the request is tracked, or NoError
Admission(c, m) ==
  IF m.shape = "badjson" THEN Err(0, "parse")
  ELSE IF m.shape = "badtag" THEN Err(INVALID_REQUEST, "structure")
  ELSE IF m.shape = "notification" THEN NoError
  ELSE IF ValidateState(m.method) # NoError THEN ValidateState(m.method)
  ELSE CheckInitialized(c, m.method)

\* handleError ignoring the code of the thrown value
HandleError_Opaque(e) == Err(INTERNAL_ERROR, e.why)

\* MCPServer.handleError: the error object sent for a thrown value (a thrown
\* value without a numeric code is reported as INTERNAL_ERROR)
HandleError(e) == IF e.code # 0 THEN e ELSE Err(INTERNAL_ERROR, e.why)

\* the catch block's removal of the failed request's id
RemoveFailed(active, m) ==
  IF HasId(m) /\ Truthy(m.id) THEN active \ {m.id} ELSE active

Reject(c, m, e) ==
  /\ sent' = Response("error", IF HasId(m) THEN m.id ELSE NullId, 0, HandleError(e), 0, c,
                      IF readyState[c] = "open" THEN c ELSE 0, c \notin touched)
  /\ activeRequests' = [activeRequests EXCEPT ![c] = RemoveFailed(@, m)]
  /\ UNCHANGED <<readyState, initialized, controllers, tasks>>

\* a message handler that takes an initialize without an id for the handshake
Notify_Initializes(c, m) ==
  /\ readyState' = [readyState EXCEPT ![c] = IF m.method = "exit" THEN "closing" ELSE @]
  /\ initialized' = [initialized EXCEPT ![c] = IF m.method = "initialize" THEN TRUE ELSE @]
  /\ sent' = Nothing
  /\ UNCHANGED <<activeRequests, controllers, tasks>>

\* a message without an id: exit closes the socket, anything else is ignored
Notify(c, m) ==
  /\ readyState' = [readyState EXCEPT ![c] = IF m.method = "exit" THEN "closing" ELSE @]
  /\ sent' = Nothing
  /\ UNCHANGED <<initialized, activeRequests, controllers, tasks>>

Admit(c, m) ==
  LET d == Dispatch(m)
      t == CHOOSE u \in Slots \ Live : \A v \in Slots \ Live : u <= v
      cleared == ClearControllers(controllers, d.abort)
  IN /\ initialized' = [initialized EXCEPT ![c] = IF m.method = "initialize" THEN TRUE ELSE @]
     /\ activeRequests' = [activeRequests EXCEPT ![c] = @ \cup {m.id}]
     /\ tasks' = [AbortTasks(tasks, controllers, d.abort) EXCEPT
                    ![t] = NewTask(c, m, d.pc, d.err)]
     /\ controllers' = IF d.register THEN [cleared EXCEPT ![m.id] = t] ELSE cleared
     /\ sent' = Nothing
     /\ UNCHANGED readyState

\* ws 'message': the handler's turn, from the parse to its first await; it
\* begins by setting lastMessageAt
Receive(c, m) ==
  /\ phase # "terminated"
  /\ readyState[c] \in {"open", "closing"}
  /\ \A t \in Slots : tasks[t].pc = "respond" => tasks[t].conn = c
  /\ touched' = touched \cup {c}
  /\ finished' = FreeTask
  /\ idle' = [idle EXCEPT ![c] = 0]
  /\ UNCHANGED <<swept, protocolInitialized, shutdownRequested, phase, clients, closeWait>>
  /\ IF Admission(c, m) # NoError THEN Reject(c, m, Admission(c, m))
     ELSE IF m.shape = "notification" THEN Notify(c, m)
     ELSE Live # Slots /\ Admit(c, m)

\* the message handler after `await this.handlers.handleRequest(request)`:
\* the response is sent (or handleError sends the error thrown) ...
Answer(t, e) ==
  Response(IF e = NoError THEN "result" ELSE "error", tasks[t].id, 0,
           IF e = NoError THEN NoError ELSE HandleError(e), t,
           tasks[t].conn, IF readyState[tasks[t].conn] = "open" THEN tasks[t].conn ELSE 0,
           FALSE)
Answered(r, e) ==
  [r EXCEPT !.pc = "done", !.fin = "answered", !.err = e, !.terminals = @ + 1]
\* ... and the id is removed from the connection's set (in the catch block
\* only if the id is truthy)
Settled(active, r, e) ==
  [active EXCEPT ![r.conn] = IF e = NoError \/ Truthy(r.id) THEN @ \ {r.id} ELSE @]

\* a server that answers no request while a backend call is pending
Respond_Serial(t) ==
  /\ phase # "terminated"
  /\ tasks[t].pc = "respond"
  /\ \A v \in Slots : tasks[v].pc \notin {"awaitGenerate", "awaitChunk"}
  /\ sent' = Answer(t, tasks[t].err)
  /\ finished' = Answered(tasks[t], tasks[t].err)
  /\ tasks' = [tasks EXCEPT ![t] = FreeTask]
  /\ activeRequests' = Settled(activeRequests, tasks[t], tasks[t].err)
  /\ UNCHANGED <<idle, swept, protocolInitialized, shutdownRequested, phase, clients, readyState,
                 initialized, controllers, closeWait, touched>>

\* the continuation of a request whose handler returned without waiting for
\* the backend
Respond(t) ==
  /\ phase # "terminated"
  /\ tasks[t].pc = "respond"
  /\ sent' = Answer(t, tasks[t].err)
  /\ finished' = Answered(tasks[t], tasks[t].err)
  /\ tasks' = [tasks EXCEPT ![t] = FreeTask]
  /\ activeRequests' = Settled(activeRequests, tasks[t], tasks[t].err)
  /\ UNCHANGED <<idle, swept, protocolInitialized, shutdownRequested, phase, clients, readyState,
                 initialized, controllers, closeWait, touched>>

Registered == {clients[i] : i \in DOMAIN clients}

\* MCPServer.shutdown after `await Promise.all(closePromises)`: the
\* continuation runs in the turn that resolved the last close promise (in the
\* trigger's own turn if no promise was left pending); it clears the registry
\* and calls wss.close, which stops the front door and then waits
AfterPromiseAll(ph, waiting) == IF ph = "draining" /\ waiting = {} THEN "stopping" ELSE ph
Cleared(ph, registry) == IF ph = "stopping" THEN <<>> ELSE registry

\* ws 'close': the socket is gone (the client closed it, the closing handshake
\* ended, or the socket was destroyed); cleanUpClient cancels every id of the
\* connection's set and drops the registry entry
CloseEvent(c) ==
  /\ NoMicrotask
  /\ phase # "terminated"
  /\ readyState[c] \in {"open", "closing", "destroyed"}
  /\ readyState' = [readyState EXCEPT ![c] = "closed"]
  /\ tasks' = AbortTasks(tasks, controllers, activeRequests[c])
  /\ controllers' = ClearControllers(controllers, activeRequests[c])
  /\ closeWait' = closeWait \ {c}
  /\ phase' = AfterPromiseAll(phase, closeWait \ {c})
  /\ clients' = Cleared(phase', SelectSeq(clients, LAMBDA d : d # c))
  /\ sent' = Nothing
  /\ finished' = FreeTask
  /\ UNCHANGED <<idle, swept, protocolInitialized, shutdownRequested, initialized, activeRequests,
                 touched>>

\* MCPServer.shutdown (a SIGINT or SIGTERM), up to `await
\* Promise.all(closePromises)`: the flag is set, the open sockets are notified
\* (the notification is not a response and not recorded), every id of every
\* registered connection is cancelled, and every open socket is asked to
\* close and waited for; for a socket that is closing already the promise is
\* resolved at once
ShutdownTrigger ==
  /\ NoMicrotask
  /\ phase = "running"
  /\ shutdownRequested' = TRUE
  /\ LET ids == UNION {activeRequests[c] : c \in Registered}
     IN /\ tasks' = AbortTasks(tasks, controllers, ids)
        /\ controllers' = ClearControllers(controllers, ids)
  /\ readyState' = [c \in Conns |->
                      IF c \in Registered /\ readyState[c] = "open" THEN "closing"
                      ELSE readyState[c]]
  /\ closeWait' = {c \in Registered : readyState[c] = "open"}
  /\ phase' = AfterPromiseAll("draining", closeWait')
  /\ clients' = Cleared(phase', clients)
  /\ sent' = Nothing
  /\ finished' = FreeTask
  /\ UNCHANGED <<idle, swept, protocolInitialized, initialized, activeRequests, touched>>

\* the 2 second timer of a close promise, for a socket whose 'close' event
\* has not come: terminate() destroys the socket (its 'close' event follows
\* in a later turn) and the promise is resolved
GraceTimeout(c) ==
  /\ NoMicrotask
  /\ phase = "draining"
  /\ c \in closeWait
  /\ readyState' = [readyState EXCEPT ![c] = "destroyed"]
  /\ closeWait' = closeWait \ {c}
  /\ phase' = AfterPromiseAll(phase, closeWait \ {c})
  /\ clients' = Cleared(phase', clients)
  /\ sent' = Nothing
  /\ finished' = FreeTask
  /\ UNCHANGED <<idle, swept, protocolInitialized, shutdownRequested,
                 initialized, activeRequests, controllers, tasks, touched>>

\* MCPServer.shutdown after its two awaits on wss.close and
\* httpServer.close: process.exit.  Neither close ends a connection: the
\* WebSocketServer reports closed when its last client is gone and the HTTP
\* server when its last connection has ended, so the callbacks come once
\* every accepted socket is closed.
ShutdownComplete ==
  /\ NoMicrotask
  /\ phase = "stopping"
  /\ \A c \in Conns : readyState[c] \in {"none", "closed"}
  /\ phase' = "terminated"
  /\ sent' = Nothing
  /\ finished' = FreeTask
  /\ UNCHANGED <<idle, swept, protocolInitialized, shutdownRequested, clients, readyState, initialized,
                 activeRequests, controllers, tasks, closeWait, touched>>

\* the idle threshold of monitorConnections (5 minutes), in ticks
Threshold == MaxIdle - 1

\* time passes: the idle time of every open connection grows
Tick ==
  /\ NoMicrotask
  /\ phase # "terminated"
  /\ \E c \in Conns : readyState[c] = "open" /\ idle[c] < MaxIdle
  /\ idle' = [c \in Conns |->
                IF readyState[c] = "open" /\ idle[c] < MaxIdle THEN idle[c] + 1 ELSE idle[c]]
  /\ sent' = Nothing
  /\ finished' = FreeTask
  /\ UNCHANGED <<swept, protocolInitialized, shutdownRequested, phase, clients, readyState,
                 initialized, activeRequests, controllers, tasks, closeWait, touched>>

\* ws 'pong': lastMessageAt is set
Pong(c) ==
  /\ NoMicrotask
  /\ phase # "terminated"
  /\ readyState[c] = "open"
  /\ idle[c] > 0
  /\ idle' = [idle EXCEPT ![c] = 0]
  /\ sent' = Nothing
  /\ finished' = FreeTask
  /\ UNCHANGED <<swept, protocolInitialized, shutdownRequested, phase, clients, readyState,
                 initialized, activeRequests, controllers, tasks, closeWait, touched>>

\* a comparison that takes the threshold itself for stale
Stale_Inclusive(c) == idle[c] >= Threshold
\* monitorConnections' test `timeSinceLastActivity > 5 * 60 * 1000`
Stale(c) == idle[c] > Threshold

\* what monitorConnections does to a registered connection: a socket that
\* is closing or closed is cleaned up, a stale one is terminated, and
\* otherwise an open one is pinged
SweepOf(c) ==
  IF c \notin Registered THEN "none"
  ELSE IF readyState[c] \in {"closing", "destroyed", "closed"} THEN "cleanup"
  ELSE IF Stale(c) THEN "terminate"
  ELSE IF readyState[c] = "open" THEN "ping"
  ELSE "none"

\* setInterval(monitorConnections, 60000): one run over the registry
Sweep ==
  /\ NoMicrotask
  /\ phase # "terminated"
  /\ swept' = [c \in Conns |-> SweepOf(c)]
  /\ readyState' = [c \in Conns |->
                      IF SweepOf(c) = "terminate" THEN "destroyed" ELSE readyState[c]]
  /\ LET ids == UNION {activeRequests[c] : c \in {d \in Conns : SweepOf(d) = "cleanup"}}
     IN /\ tasks' = AbortTasks(tasks, controllers, ids)
        /\ controllers' = ClearControllers(controllers, ids)
  /\ clients' = SelectSeq(clients, LAMBDA d : SweepOf(d) # "cleanup")
  /\ sent' = Nothing
  /\ finished' = FreeTask
  /\ UNCHANGED <<idle, protocolInitialized, shutdownRequested, phase, initialized,
                 activeRequests, closeWait, touched>>

\* the 'response' listener's scan: the first registered connection whose set
\* holds the response's id (0: none)
Target(id) ==
  LET hit == {i \in DOMAIN clients : id \in activeRequests[clients[i]]}
  IN IF hit = {} THEN 0 ELSE clients[CHOOSE i \in hit : \A j \in hit : i <= j]

\* the response a handler emits, with the connection the listener writes it
\* to (0: none holds the id, or the socket of the one found is not open)
Emitted(kind, t, seq, err) ==
  Response(kind, tasks[t].id, seq, err, t, tasks[t].conn,
           IF Target(tasks[t].id) # 0 /\ readyState[Target(tasks[t].id)] = "open"
             THEN Target(tasks[t].id) ELSE 0,
           FALSE)

\* the listener removes the id of a done:true stream response from the set
\* of the connection it routed the response to
AfterEmit(active, resp) ==
  IF resp.kind = "done" /\ Target(resp.id) # 0
    THEN [active EXCEPT ![Target(resp.id)] = @ \ {resp.id}]
    ELSE active

\* handleGenerate after `await this.model.generateContent(...)` returned, and
\* the message handler's continuation that follows it in the same turn
GenerateReturn(t) ==
  /\ NoMicrotask
  /\ phase # "terminated"
  /\ tasks[t].pc = "awaitGenerate"
  /\ controllers' = ClearControllers(controllers, {tasks[t].id})
  /\ sent' = Answer(t, NoError)
  /\ finished' = Answered(tasks[t], NoError)
  /\ tasks' = [tasks EXCEPT ![t] = FreeTask]
  /\ activeRequests' = Settled(activeRequests, tasks[t], NoError)
  /\ UNCHANGED <<idle, swept, protocolInitialized, shutdownRequested, phase, clients, readyState,
                 initialized, closeWait, touched>>

\* handleGenerate's catch: the backend call failed; the message handler's
\* catch block follows in the same turn
GenerateFail(t, failure) ==
  /\ NoMicrotask
  /\ phase # "terminated"
  /\ tasks[t].pc = "awaitGenerate"
  /\ controllers' = ClearControllers(controllers, {tasks[t].id})
  /\ sent' = Answer(t, HandleApiError(failure))
  /\ finished' = Answered(tasks[t], HandleApiError(failure))
  /\ tasks' = [tasks EXCEPT ![t] = FreeTask]
  /\ activeRequests' = Settled(activeRequests, tasks[t], HandleApiError(failure))
  /\ UNCHANGED <<idle, swept, protocolInitialized, shutdownRequested, phase, clients, readyState,
                 initialized, closeWait, touched>>

\* handleStream's test at the head of the loop body, on the chunk just
\* taken from the stream
ShouldBreak(r) == r.aborted

\* handleStream's test after the loop: the done:true response is emitted
\* unless the controller is aborted
EmitsFinal_Never(r) == FALSE
EmitsFinal(r) == ~r.aborted

\* a catch block that stays in the loop: the invocation goes on after its
\* terminal response
LeaveStream_Resume(ts, t) == [ts EXCEPT ![t].terminals = @ + 1]
\* handleStream returns (its loop is left for good), handleRequest returns
\* null and the message handler's continuation only logs
LeaveStream(ts, t) == [ts EXCEPT ![t] = FreeTask]

\* handleStream: the stream yields its next chunk to the for-await loop, which
\* breaks if the controller is aborted and emits the chunk otherwise
StreamChunk(t) ==
  /\ NoMicrotask
  /\ phase # "terminated"
  /\ tasks[t].pc = "awaitChunk"
  /\ tasks[t].delivered < MaxChunks
  /\ LET r == tasks[t]
         resp == Emitted("chunk", t, r.delivered + 1, NoError)
     IN IF ShouldBreak(r)
          THEN /\ finished' = [r EXCEPT !.delivered = @ + 1, !.pc = "done", !.fin = "break"]
               /\ tasks' = LeaveStream(tasks, t)
               /\ controllers' = ClearControllers(controllers, {r.id})
               /\ sent' = Nothing
               /\ UNCHANGED activeRequests
          ELSE /\ finished' = FreeTask
               /\ tasks' = [tasks EXCEPT ![t].delivered = @ + 1, ![t].chunks = @ + 1]
               /\ sent' = resp
               /\ activeRequests' = AfterEmit(activeRequests, resp)
               /\ UNCHANGED controllers
  /\ UNCHANGED <<idle, swept, protocolInitialized, shutdownRequested, phase, clients, readyState,
                 initialized, closeWait, touched>>

\* handleStream: the stream is exhausted; the final response is emitted unless
\* the controller is aborted
StreamEnd(t) ==
  /\ NoMicrotask
  /\ phase # "terminated"
  /\ tasks[t].pc = "awaitChunk"
  /\ LET r == tasks[t]
         resp == Emitted("done", t, 0, NoError)
     IN IF EmitsFinal(r)
          THEN /\ finished' = [r EXCEPT !.pc = "done", !.fin = "end", !.terminals = @ + 1]
               /\ sent' = resp
               /\ activeRequests' = AfterEmit(activeRequests, resp)
          ELSE /\ finished' = [r EXCEPT !.pc = "done", !.fin = "end"]
               /\ sent' = Nothing
               /\ UNCHANGED activeRequests
  /\ tasks' = LeaveStream(tasks, t)
  /\ controllers' = ClearControllers(controllers, {tasks[t].id})
  /\ UNCHANGED <<idle, swept, protocolInitialized, shutdownRequested, phase, clients, readyState,
                 initialized, closeWait, touched>>

\* handleStream's catch: opening the stream or pulling a chunk failed
StreamFail(t, failure) ==
  /\ NoMicrotask
  /\ phase # "terminated"
  /\ tasks[t].pc = "awaitChunk"
  /\ LET r == tasks[t]
         resp == Emitted("error", t, 0, HandleApiError(failure))
     IN /\ finished' = [r EXCEPT !.pc = "done", !.fin = "fail", !.terminals = @ + 1,
                                 !.err = HandleApiError(failure)]
        /\ sent' = resp
        /\ activeRequests' = AfterEmit(activeRequests, resp)
  /\ tasks' = LeaveStream(tasks, t)
  /\ controllers' = ClearControllers(controllers, {tasks[t].id})
  /\ UNCHANGED <<idle, swept, protocolInitialized, shutdownRequested, phase, clients, readyState,
                 initialized, closeWait, touched>>

\* -------------------------------------------------------- specifications
NextServer ==
  \/ \E c \in Conns : Connect(c)
  \/ \E c \in Conns, m \in Messages : Receive(c, m)
  \/ \E t \in Slots : Respond(t)
  \/ \E c \in Conns : CloseEvent(c)
  \/ ShutdownTrigger
  \/ \E c \in Conns : GraceTimeout(c)
  \/ ShutdownComplete

NextBackend ==
  \/ \E t \in Slots : GenerateReturn(t)
  \/ \E t \in Slots, f \in Failures : GenerateFail(t, f)
  \/ \E t \in Slots : StreamChunk(t)
  \/ \E t \in Slots : StreamEnd(t)
  \/ \E t \in Slots, f \in Failures : StreamFail(t, f)

\* The server as MCPServer's constructor builds it.  Nothing ever calls
\* ProtocolManager.markAsInitialized, so validateState lets only initialize
\* through, no task ever waits for the backend and the backend turns are
\* never enabled.
Spec == Init /\ [][NextServer]_vars

\* What the event loop and the socket library guarantee to happen: a
\* continuation that is queued runs; the 2 second timer of a pending close
\* promise fires; a socket that is closing or was terminated gets its 'close'
\* event (the closing handshake ends, or the library's own close timer
\* destroys the socket); and the servers' close callbacks come once no
\* socket is left.  Nothing obliges a signal to arrive, a client to connect,
\* to send, or to close a connection that the server has not asked to close.
Fairness ==
  /\ \A t \in Slots : WF_vars(Respond(t))
  /\ \A c \in Conns : WF_vars(GraceTimeout(c))
  /\ \A c \in Conns : WF_vars(readyState[c] \in {"closing", "destroyed"} /\ CloseEvent(c))
  /\ WF_vars(ShutdownComplete)

SpecFair == Init /\ [][NextServer]_vars /\ Fairness

\* The server as built, with its clock and its health sweep: time passes,
\* pongs arrive, and monitorConnections runs off its interval timer, which
\* like every timer keeps firing.
NextSweep ==
  \/ NextServer
  \/ Tick
  \/ \E c \in Conns : Pong(c)
  \/ Sweep

SpecSweep ==
  Init /\ [][NextSweep]_vars /\ Fairness /\ WF_vars(Tick) /\ WF_vars(Sweep)

\* The same server with markAsInitialized() applied to its ProtocolManager
\* before the first message, which is what opens validateState's first check:
\* the specification under which the handlers behind it can be examined.
InitMarked ==
  /\ protocolInitialized = TRUE
  /\ shutdownRequested = FALSE
  /\ phase = "running"
  /\ clients = <<>>
  /\ readyState = [c \in Conns |-> "none"]
  /\ initialized = [c \in Conns |-> FALSE]
  /\ activeRequests = [c \in Conns |-> {}]
  /\ controllers = [i \in Ids |-> 0]
  /\ tasks = [t \in Slots |-> FreeTask]
  /\ closeWait = {}
  /\ touched = {}
  /\ sent = Nothing
  /\ finished = FreeTask
  /\ idle = [c \in Conns |-> 0]
  /\ swept = [c \in Conns |-> "none"]

\* The requests that reach the four handlers which register, abort or answer
\* through the backend: initialize, generate and stream with and without a
\* prompt, cancel naming a request id.
Calls ==
  {m \in Messages : /\ m.shape = "request"
                    /\ m.method \in {"initialize", "generate", "stream", "cancel"}
                    /\ m.arg # "empty"
                    /\ (m.method = "cancel" => m.arg = "given")}

NextMarked ==
  \/ \E c \in Conns : Connect(c)
  \/ \E c \in Conns, m \in Calls : Receive(c, m)
  \/ \E t \in Slots : Respond(t)
  \/ \E c \in Conns : CloseEvent(c)
  \/ NextBackend

SpecMarked == InitMarked /\ [][NextMarked]_vars

\* The server with markAsInitialized applied, serving initialize and stream
\* requests and shut down by a signal: the specification under which the
\* shutdown of connections that hold streams in flight can be examined.
Drains ==
  {m \in Calls : m.method = "initialize" \/ (m.method = "stream" /\ m.arg = "given")}

NextDrain ==
  \/ \E c \in Conns : Connect(c)
  \/ \E c \in Conns, m \in Drains : Receive(c, m)
  \/ \E t \in Slots : Respond(t)
  \/ \E c \in Conns : CloseEvent(c)
  \/ \E t \in Slots : StreamChunk(t)
  \/ \E t \in Slots : StreamEnd(t)
  \/ \E t \in Slots, f \in Failures : StreamFail(t, f)
  \/ ShutdownTrigger
  \/ \E c \in Conns : GraceTimeout(c)
  \/ ShutdownComplete

SpecDrain == InitMarked /\ [][NextDrain]_vars

\* The same server under every kind of message (malformed, unknown method,
\* parameter absent or empty, before and after initialize) with its shutdown
\* and a backend that answers every call; every id is 1.
Probes == {m \in Messages : HasId(m) => m.id = 1}

NextProbe ==
  \/ \E c \in Conns : Connect(c)
  \/ \E c \in Conns, m \in Probes : Receive(c, m)
  \/ \E t \in Slots : Respond(t)
  \/ \E c \in Conns : CloseEvent(c)
  \/ \E t \in Slots : GenerateReturn(t)
  \/ \E t \in Slots : StreamEnd(t)
  \/ ShutdownTrigger
  \/ \E c \in Conns : GraceTimeout(c)
  \/ ShutdownComplete

SpecProbe == InitMarked /\ [][NextProbe]_vars

\* ------------------------------------------------------------------ claims
\* a well-formed request: valid JSON, jsonrpc "2.0", a string method and an
\* id that is a string or a number
Requests == {m \in Messages : m.shape = "request"}

\* the turn rejected the message: an error was produced and no invocation
\* was started, registered or aborted
Rejected(c, m, code) ==
  /\ sent'.kind = "error"
  /\ sent'.err.code = code
  /\ sent'.id = m.id
  /\ sent'.from = c
  /\ sent'.to = IF readyState[c] = "open" THEN c ELSE 0
  /\ tasks' = tasks
  /\ controllers' = controllers

\* the turn started an invocation for the message, suspended at pc
Started(c, m, pc) ==
  \E t \in Slots :
    /\ tasks[t].pc = "free"
    /\ tasks'[t].pc = pc
    /\ tasks'[t].conn = c
    /\ tasks'[t].id = m.id
    /\ tasks'[t].method = m.method
    /\ m.id \in activeRequests'[c]

C2_GenerateAfterInitialize ==
  [][\A c \in Conns, m \in Requests :
       (/\ m.method = "generate" /\ m.arg = "given"
        /\ initialized[c] /\ ~shutdownRequested /\ readyState[c] = "open"
        /\ Receive(c, m))
         => Started(c, m, "awaitGenerate")]_vars

C4_InitializeOnce ==
  [][/\ \A c \in Conns, m \in Requests :
          (m.method = "initialize" /\ ~shutdownRequested /\ Receive(c, m))
            => IF initialized[c]
                 THEN /\ Rejected(c, m, INVALID_REQUEST)
                      /\ sent'.err.why = "already-initialized"
                 ELSE /\ initialized'[c]
                      /\ Started(c, m, "respond")
                      /\ \E t \in Slots : /\ tasks[t].pc = "free"
                                           /\ tasks'[t] = NewTask(c, m, "respond", NoError)
     /\ \A t \in Slots :
          (tasks[t].method = "initialize" /\ Respond(t))
            => (sent'.kind = "result" /\ sent'.id = tasks[t].id /\ sent'.from = tasks[t].conn)
     /\ \A c \in Conns : initialized[c] => initialized'[c]]_vars

\* a second initialize was just rejected on a connection whose flag is (still)
\* true, with no shutdown in progress
C4_Witness ==
  /\ sent.kind = "error"
  /\ sent.err = Err(INVALID_REQUEST, "already-initialized")
  /\ sent.from \in Conns
  /\ initialized[sent.from]
  /\ ~shutdownRequested

\* C5: a stream invocation whose controller is never aborted emits one
\* done:false response per chunk the backend yields, numbered in the order of
\* the chunks and carrying the request's id, and when the backend's sequence
\* ends after N chunks it has emitted exactly N of them and then emits exactly
\* one done:true response with the same id.
C5_StreamRunsToCompletion ==
  [][\A t \in Slots :
       (tasks[t].method = "stream" /\ tasks[t].pc = "awaitChunk" /\ ~tasks[t].aborted)
         => /\ tasks[t].chunks = tasks[t].delivered
            /\ tasks[t].terminals = 0
            /\ StreamChunk(t)
                 => /\ sent' = Emitted("chunk", t, tasks[t].chunks + 1, NoError)
                    /\ sent'.id = tasks[t].id
                    /\ tasks'[t].chunks = tasks[t].chunks + 1
                    /\ tasks'[t].pc = "awaitChunk"
            /\ StreamEnd(t)
                 => /\ sent' = Emitted("done", t, 0, NoError)
                    /\ sent'.id = tasks[t].id
                    /\ finished'.chunks = tasks[t].delivered
                    /\ finished'.terminals = 1
                    /\ tasks'[t].pc = "free"]_vars

\* a stream that was never aborted just ended after two chunks, with its
\* done:true response
C5_Witness ==
  /\ finished.method = "stream"
  /\ finished.fin = "end"
  /\ ~finished.aborted
  /\ finished.delivered = 2
  /\ finished.chunks = 2
  /\ sent.kind = "done"
  /\ sent.id = finished.id

\* C6: a stream whose controller is aborted after its k-th chunk was emitted,
\* with chunks left in the backend's sequence and its connection open, ends
\* having emitted exactly k done:false responses and exactly one terminal
\* response for its id.
C6_CancelledStreamTerminates ==
  (finished.method = "stream" /\ finished.fin = "break" /\ readyState[finished.conn] = "open")
    => (finished.chunks = finished.abortedAt /\ finished.terminals = 1)

\* C7: once a stream's controller is aborted no further chunk is taken from
\* the backend's sequence: the number of chunks consumed stays what it was at
\* the abort, up to and including the end of the invocation.
C7_NoPullAfterAbort ==
  /\ \A t \in Slots :
       (tasks[t].method = "stream" /\ tasks[t].aborted)
         => tasks[t].delivered = tasks[t].abortedAt
  /\ (finished.method = "stream" /\ finished.aborted)
       => finished.delivered = finished.abortedAt

\* the in-flight set of the connection of the invocation that just ended
\* still answers for its id on behalf of another invocation
Reused(r) ==
  \E t \in Slots : tasks[t].pc # "free" /\ tasks[t].conn = r.conn /\ tasks[t].id = r.id

\* C8: a request whose id was added to its connection's in-flight set ends
\* with exactly one terminal response, and when it has ended its id is out of
\* the set as long as the connection is open (unless another request of the
\* connection that uses the same id is still running).
C8_EndedRequestSettled ==
  (finished.pc = "done" /\ readyState[finished.conn] = "open" /\ ~Reused(finished))
    => /\ finished.terminals = 1
       /\ finished.id \notin activeRequests[finished.conn]

\* C9: an id is in a connection's in-flight set exactly while a request with
\* that id, admitted on that connection, has not ended with its terminal
\* response.
C9_InFlightExact ==
  \A c \in Conns, i \in Ids :
    i \in activeRequests[c]
      <=> \E t \in Slots : tasks[t].pc # "free" /\ tasks[t].conn = c /\ tasks[t].id = i

\* the responses that end a request
Terminal == {"result", "done", "error"}

\* C10: an invocation emits a response only while it has produced no
\* terminal response; a done:false response leaves it running with none, a
\* terminal response is its first and it ends with exactly that one: no
\* request gets two terminal responses and no done:false response follows a
\* terminal one.
C10_TerminalLast ==
  [][/\ \A t \in Slots :
          sent'.slot = t
            => /\ tasks[t].pc # "free"
               /\ tasks[t].terminals = 0
               /\ sent'.id = tasks[t].id
               /\ sent'.kind = "chunk"
                    => (tasks'[t].pc = "awaitChunk" /\ tasks'[t].terminals = 0)
               /\ sent'.kind \in Terminal
                    => (tasks'[t].pc = "free" /\ finished'.terminals = 1
                        /\ finished'.id = tasks[t].id)
     /\ finished'.terminals <= 1
     /\ \A t \in Slots : tasks'[t].terminals = 0]_vars

\* a stream just ended with its one terminal response after done:false
\* responses
C10_Witness ==
  /\ finished.method = "stream"
  /\ finished.chunks >= 1
  /\ finished.terminals = 1
  /\ sent.kind \in {"done", "error"}
  /\ sent.slot \in Slots

\* C11: every response a stream invocation emits (done:false, done:true or
\* its error) that is written to a socket is written to the socket of the
\* connection that issued the stream request.
C11_StreamRoutedToIssuer ==
  (/\ sent.slot \in Slots
   /\ sent.kind \in {"chunk", "done"} \/ (sent.kind = "error" /\ finished.fin = "fail")
   /\ sent.to # 0)
    => sent.to = sent.from

\* C12: a request whose id is in flight on its connection (the id is in the
\* connection's set on behalf of a request that has not ended) is rejected
\* with an error echoing its id: no invocation is started for it, and the
\* in-flight set and the registered AbortControllers stay as they were.
C12_DuplicateIdRejected ==
  [][\A c \in Conns, m \in Calls :
       (/\ m.id \in activeRequests[c]
        /\ \E t \in Slots : tasks[t].pc # "free" /\ tasks[t].conn = c /\ tasks[t].id = m.id
        /\ Receive(c, m))
         => /\ sent'.kind = "error"
            /\ sent'.id = m.id
            /\ tasks' = tasks
            /\ controllers' = controllers
            /\ activeRequests' = activeRequests]_vars

\* C13: a cancel request carrying a requestId that reaches its handler (the
\* turn that took it up is found by the invocation it started) is answered with the result {cancelled: true} echoing its id and never with
\* an error, whatever the state of the target (in flight, cancelled before,
\* completed, never seen); and when no controller is registered under the
\* target (as after a first cancel of it) the cancel aborts nothing and
\* leaves the controllers and every running invocation as they were.
C13_CancelIdempotent ==
  [][/\ \A u \in Slots, g \in Ids :
          (tasks[u].pc = "free" /\ tasks'[u].method = "cancel")
            => LET c == tasks'[u].conn
                   m == Msg("request", "cancel", tasks'[u].id, "given", g)
               IN Receive(c, m)
                    => /\ tasks'[u] = NewTask(c, m, "respond", NoError)
                       /\ controllers'[m.target] = 0
                       /\ controllers[m.target] = 0
                            => /\ controllers' = controllers
                               /\ \A t \in Live : tasks'[t] = tasks[t]
     /\ \A t \in Slots :
          (tasks[t].method = "cancel" /\ Respond(t))
            => /\ sent'.kind = "result"
               /\ sent'.id = tasks[t].id
               /\ sent'.from = tasks[t].conn
               /\ finished'.terminals = 1]_vars

\* a cancel was just answered with its result while no invocation but its
\* own was running, so that no controller was registered under its target
\* (no invocation can end between a cancel's arrival and its answer), on a
\* connection whose set still holds the id of a stream that was cancelled or
\* failed before
C13_Witness ==
  /\ sent.kind = "result"
  /\ finished.method = "cancel"
  /\ finished.fin = "answered"
  /\ \A i \in Ids : controllers[i] = 0
  /\ \A t \in Slots : tasks[t].pc = "free"
  /\ sent.to = sent.from
  /\ \E i \in Ids : i \in activeRequests[sent.from]

\* C14: the turn that takes up a cancel request whose target has a
\* registered AbortController aborts the invocation owning that controller
\* and removes the target id from the in-flight set of that invocation's
\* connection (where the target is not the cancel's own id on the same
\* connection, which is in the set on the cancel's behalf).
C14_CancelRemovesTarget ==
  [][\A u \in Slots, g \in Ids :
       (tasks[u].pc = "free" /\ tasks'[u].method = "cancel" /\ controllers[g] # 0)
         => LET c == tasks'[u].conn
                m == Msg("request", "cancel", tasks'[u].id, "given", g)
                owner == controllers[g]
            IN Receive(c, m)
                 => /\ tasks'[owner].aborted
                    /\ (tasks[owner].conn # c \/ g # m.id)
                         => g \notin activeRequests'[tasks[owner].conn]]_vars

\* C15: a generate invocation whose AbortController was aborted before it
\* ended does not end with a success response: what is written to a socket
\* as its terminal response is not a result.
C15_NoLateSuccess ==
  (finished.method = "generate" /\ finished.aborted /\ sent.slot \in Slots /\ sent.to # 0)
    => sent.kind # "result"

\* C16: once shutdown has been triggered, every request processed on any
\* connection, whatever its method and whether or not the connection is
\* initialized, is answered with an error: its id is not added to an
\* in-flight set, no invocation is started for it and no AbortController is
\* registered or aborted.
C16_NoAdmissionWhileDraining ==
  [][\A c \in Conns, m \in Requests :
       (shutdownRequested /\ Receive(c, m))
         => /\ sent'.kind = "error"
            /\ sent'.id = m.id
            /\ tasks' = tasks
            /\ controllers' = controllers
            /\ activeRequests'[c] \subseteq activeRequests[c]
            /\ initialized' = initialized]_vars

\* after the shutdown trigger an initialize request, the one method that
\* gets past validateState's first check, was just rejected as arriving
\* during shutdown on a connection that was not initialized
C16_Witness ==
  /\ shutdownRequested
  /\ sent.kind = "error"
  /\ sent.err = Err(INVALID_REQUEST, "shutting-down")
  /\ sent.from \in Conns
  /\ ~initialized[sent.from]

\* C17: a generate request processed after the shutdown trigger on a
\* connection whose initialize had succeeded is rejected with the error that
\* says the server is shutting down (INVALID_REQUEST, "Server is shutting
\* down"), not with SERVER_NOT_INITIALIZED or any other error.
C17_RejectedAsShuttingDown ==
  [][\A c \in Conns, m \in Requests :
       (m.method = "generate" /\ initialized[c] /\ shutdownRequested /\ Receive(c, m))
         => /\ sent'.kind = "error"
            /\ sent'.id = m.id
            /\ sent'.err = Err(INVALID_REQUEST, "shutting-down")]_vars

\* C18: every stream that is in flight on a connection which shutdown asks to
\* close gets its terminal response on that connection before the connection
\* is closed: such a stream does not end without exactly one terminal
\* response written to its connection's socket, and when the wait for the
\* connection ends (its socket closed, or its grace period expired and the
\* socket was terminated) no stream of the connection is still running.
C18_StreamsEndBeforeClose ==
  [][/\ \A c \in Conns :
          (c \in closeWait /\ c \notin closeWait')
            => \A t \in Slots :
                 ~(tasks'[t].method = "stream" /\ tasks'[t].conn = c /\ tasks'[t].pc # "free")
     /\ (finished'.method = "stream" /\ finished'.conn \in closeWait)
          => (finished'.terminals = 1 /\ sent'.to = finished'.conn)]_vars

\* C19: shutdown keeps its order.  The turn that starts it sets the shutdown
\* flag, cancels every id in the in-flight set of every registered
\* connection and asks every open registered socket to close; the front door
\* is stopped (the servers' close is begun) only when every connection has
\* closed or has been terminated at the end of its grace period; and the
\* process exits only from there.
C19_ShutdownOrder ==
  [][/\ (phase = "running" /\ phase' # "running")
          => /\ shutdownRequested'
             /\ \A c \in Registered :
                  /\ \A i \in activeRequests[c] : controllers'[i] = 0
                  /\ readyState[c] = "open" => readyState'[c] = "closing"
     /\ shutdownRequested' => phase' # "running"
     /\ (phase # "stopping" /\ phase' = "stopping")
          => \A c \in Conns : readyState'[c] \in {"none", "closed", "destroyed"}
     /\ (phase # "terminated" /\ phase' = "terminated") => phase = "stopping"]_vars

\* C20: once shutdown is triggered the process terminates: the run reaches
\* process.exit, whatever the clients do.
C20_ShutdownTerminates == shutdownRequested ~> (phase = "terminated")

\* C21: once a connection has closed and its cleanup has run, no request
\* admitted on it is left with an AbortController that was not aborted, and
\* none is still waiting for the backend.
C21_NothingOutlivesConnection ==
  \A t \in Slots :
    (tasks[t].pc # "free" /\ readyState[tasks[t].conn] = "closed")
      => tasks[t].pc \notin {"awaitGenerate", "awaitChunk"}

\* C22: a message that is rejected before dispatch (invalid envelope, not
\* initialized, already initialized, shutting down) leaves the in-flight set
\* of its connection, the registered AbortControllers and the running
\* invocations exactly as they were, also when it carries the id of a
\* request that is in flight on the connection.
C22_RejectionHasNoEffect ==
  [][\A c \in Conns, m \in Messages :
       (Admission(c, m) # NoError /\ Receive(c, m))
         => /\ sent'.kind = "error"
            /\ activeRequests' = activeRequests
            /\ controllers' = controllers
            /\ tasks' = tasks
            /\ initialized' = initialized]_vars

\* C23: on every health sweep, a registered connection whose socket is not
\* closing or closed is terminated and not pinged if its idle time is
\* strictly greater than the threshold, and otherwise, its socket being
\* open, is pinged and not terminated.
C23_SweepPingsOrTerminates ==
  [][Sweep =>
       \A c \in Registered :
         readyState[c] \notin {"closing", "destroyed", "closed"}
           => IF idle[c] > Threshold
                THEN swept'[c] = "terminate" /\ readyState'[c] = "destroyed"
                ELSE readyState[c] = "open"
                       => (swept'[c] = "ping" /\ readyState'[c] = "open")]_vars

\* a sweep has just terminated one connection, idle for longer than the
\* threshold, and pinged another, idle for exactly the threshold
C23_Witness ==
  \E c, d \in Conns :
    /\ swept[c] = "terminate" /\ readyState[c] = "destroyed" /\ idle[c] = Threshold + 1
    /\ swept[d] = "ping" /\ readyState[d] = "open" /\ idle[d] = Threshold

\* C24: a registered connection from which no further message or pong is
\* received is eventually terminated: its socket ends closed and its
\* registry entry is removed (the timers keep firing and 'close' events are
\* delivered, as SpecSweep's fairness conditions say).
C24_SilentConnectionTerminated ==
  \A c \in Conns :
    (c \in Registered /\ idle[c] > 0)
      ~> ((readyState[c] = "closed" /\ c \notin Registered) \/ idle[c] = 0)

\* the messages that are not valid JSON or fail envelope validation
Malformed == {m \in Messages : m.shape \in {"badjson", "badtag"}}

\* C25: a message that is not valid JSON or fails envelope validation,
\* received on an open connection, is answered with one error response
\* written to that connection, and leaves the connection open and
\* registered, with its initialization flag and its in-flight set as they
\* were.
C25_MalformedLeavesConnectionAlone ==
  [][\A c \in Conns, m \in Malformed :
       (readyState[c] = "open" /\ Receive(c, m))
         => /\ sent'.kind = "error" /\ sent'.to = c
            /\ readyState'[c] = "open"
            /\ clients' = clients
            /\ initialized'[c] = initialized[c]
            /\ activeRequests'[c] = activeRequests[c]]_vars

\* C26: a message that cannot be parsed as JSON, received on an open
\* connection, is answered with an error response with code -32700 (Parse
\* error) and a null id.
C26_ParseErrorCode ==
  [][\A c \in Conns :
       (readyState[c] = "open" /\ Receive(c, Msg("badjson", "none", 0, "absent", 0)))
         => (sent'.kind = "error" /\ sent'.id = NullId /\ sent'.err.code = PARSE_ERROR)]_vars

\* an invocation waiting for the backend (generateContent, or the next chunk
\* of generateContentStream)
AtBackend(r) == r.pc \in {"awaitGenerate", "awaitChunk"}

\* C27: the backend is invoked only in the turn of the message handler that
\* admitted a well-formed generate or stream request carrying its prompt
\* parameter, on an initialized connection, with the protocol initialized
\* and no shutdown requested; that turn sends no error.
C27_BackendOnlyForAdmitted ==
  [][\A u \in Slots :
       (~AtBackend(tasks[u]) /\ AtBackend(tasks'[u]))
         => LET r == tasks'[u]
            IN /\ tasks[u].pc = "free"
               /\ r.method \in {"generate", "stream"}
               /\ r.arg # "absent"
               /\ protocolInitialized /\ ~shutdownRequested /\ initialized[r.conn]
               /\ Admission(r.conn, Msg("request", r.method, r.id, r.arg, 0)) = NoError
               /\ Receive(r.conn, Msg("request", r.method, r.id, r.arg, 0))
               /\ sent'.kind # "error"]_vars

\* a backend call is running for an initialized connection while a request,
\* rejected before it was tracked, has just been answered with an error
C27_Witness ==
  \E u \in Slots :
    /\ AtBackend(tasks[u]) /\ initialized[tasks[u].conn]
    /\ \A v \in Slots \ {u} : tasks[v].pc = "free"
    /\ sent.kind = "error" /\ sent.slot = 0
    /\ sent.err.code \in {INVALID_REQUEST, SERVER_NOT_INITIALIZED, INTERNAL_ERROR}

\* C28: a generate or stream request without its prompt parameter, or with
\* the empty string as prompt, that passes admission fails with
\* InvalidParams (-32602): its invocation registers no controller, does not
\* wait for the backend, and is answered with that error.
C28_PromptRequired ==
  [][\A u \in Slots :
       (/\ tasks[u].pc = "free" /\ tasks'[u].pc # "free"
        /\ tasks'[u].method \in {"generate", "stream"}
        /\ tasks'[u].arg \in {"absent", "empty"})
         => /\ tasks'[u].pc = "respond"
            /\ tasks'[u].err.code = INVALID_PARAMS
            /\ controllers' = controllers]_vars

\* the backend-specific private range of error codes, -32103 .. -32100
GeminiCodes ==
  {GEMINI_API_ERROR, GEMINI_RATE_LIMIT, GEMINI_INVALID_TOKEN, GEMINI_CONTENT_FILTER}

\* C29: every failure of the backend call of a generate request is answered
\* with an error whose code lies in the backend-specific range and whose
\* message carries the backend's text, never with a result, and the
\* request's controller is no longer in the handlers' map.
C29_BackendFailureWrapped ==
  [][\A t \in Slots, f \in Failures :
       GenerateFail(t, f)
         => /\ sent'.kind = "error"
            /\ sent'.err.code \in GeminiCodes
            /\ sent'.err.why = "api:" \o f
            /\ \A i \in Ids : controllers'[i] # t]_vars

\* the methods handleRequest has a case for
Known == {"initialize", "generate", "stream", "cancel", "configure"}

\* C30: a request with a method handleRequest has no case for, once
\* dispatched, fails with MethodNotFound (-32601): the turn that dispatches
\* it registers and aborts no controller, calls no backend and emits no
\* response, and the turn that ends its invocation sends the error, echoing
\* the id.
C30_UnknownMethodNotFound ==
  [][\A u \in Slots :
       /\ (tasks[u].pc = "free" /\ tasks'[u].pc # "free" /\ tasks'[u].method \notin Known)
            => /\ tasks'[u].pc = "respond"
               /\ tasks'[u].err.code = METHOD_NOT_FOUND
               /\ controllers' = controllers
               /\ \A v \in Slots \ {u} : tasks'[v] = tasks[v]
               /\ sent'.kind = "none"
       /\ (tasks[u].pc # "free" /\ tasks'[u].pc = "free" /\ tasks[u].method \notin Known)
            => /\ sent'.kind = "error" /\ sent'.slot = u
               /\ sent'.id = tasks[u].id
               /\ sent'.err.code = METHOD_NOT_FOUND
               /\ controllers' = controllers
               /\ \A v \in Slots \ {u} : tasks'[v] = tasks[v]]_vars

\* a request with an unknown method has just been answered -32601 on an
\* initialized connection while another invocation waits for the backend
C30_Witness ==
  /\ finished.method = "unknown" /\ finished.fin = "answered"
  /\ initialized[finished.conn]
  /\ sent.kind = "error" /\ sent.err.code = METHOD_NOT_FOUND /\ sent.to = finished.conn
  /\ \E v \in Slots : AtBackend(tasks[v])

\* C31: a configure request that carries its configuration parameter is
\* acknowledged with a result and changes nothing else: the turn that
\* dispatches it only tracks its id, and the turn that answers it leaves
\* every flag, every controller and every other invocation alone and
\* removes from the in-flight sets nothing but its own id, and not even
\* that while another request in flight on the connection has the same id.
C31_ConfigureChangesNothing ==
  [][\A u \in Slots :
       /\ (/\ tasks[u].pc = "free" /\ tasks'[u].pc # "free"
           /\ tasks'[u].method = "configure" /\ tasks'[u].arg = "given")
            => /\ tasks'[u].pc = "respond" /\ tasks'[u].err = NoError
               /\ controllers' = controllers
               /\ initialized' = initialized
               /\ \A v \in Slots \ {u} : tasks'[v] = tasks[v]
               /\ \A d \in Conns : activeRequests[d] \subseteq activeRequests'[d]
               /\ \A d \in Conns : activeRequests'[d] \subseteq
                    activeRequests[d] \cup (IF d = tasks'[u].conn THEN {tasks'[u].id} ELSE {})
       /\ (/\ tasks[u].pc = "respond" /\ tasks'[u].pc = "free"
           /\ tasks[u].method = "configure" /\ tasks[u].arg = "given")
            => /\ sent'.kind = "result" /\ sent'.id = tasks[u].id
               /\ controllers' = controllers
               /\ initialized' = initialized
               /\ \A v \in Slots \ {u} : tasks'[v] = tasks[v]
               /\ \A d \in Conns : activeRequests'[d] \subseteq activeRequests[d]
               /\ \A d \in Conns, j \in Ids :
                    (j \in activeRequests[d] /\ j \notin activeRequests'[d])
                      => /\ d = tasks[u].conn /\ j = tasks[u].id
                         /\ ~\E v \in Slots \ {u} :
                              /\ tasks[v].pc # "free"
                              /\ tasks[v].conn = d /\ tasks[v].id = j]_vars

\* C32: a cancel request taken up on one connection whose target is the id
\* of a request in flight on another connection only, with its
\* AbortController registered, aborts that request's controller and removes
\* it from the handlers' map: the other connection's request is cancelled.
C32_CancelCrossesConnections ==
  [][\A u \in Slots, g \in Ids :
       (/\ tasks[u].pc = "free" /\ tasks'[u].method = "cancel"
        /\ controllers[g] # 0
        /\ tasks[controllers[g]].conn # tasks'[u].conn
        /\ ~\E t \in Live : tasks[t].conn = tasks'[u].conn /\ tasks[t].id = g)
         => LET c == tasks'[u].conn
                m == Msg("request", "cancel", tasks'[u].id, "given", g)
                owner == controllers[g]
            IN Receive(c, m)
                 => /\ ~tasks[owner].aborted
                    /\ tasks'[owner].aborted
                    /\ tasks'[owner].conn # c
                    /\ controllers'[g] = 0]_vars

\* a cancel request of one connection waits to be answered while the
\* stream of another connection, one chunk delivered, is aborted and no
\* longer has a controller; the stream's id is in flight on its own
\* connection only
C32_Witness ==
  \E u, t \in Slots :
    /\ tasks[u].method = "cancel" /\ tasks[u].pc = "respond" /\ tasks[u].err = NoError
    /\ tasks[t].method = "stream" /\ tasks[t].pc = "awaitChunk"
    /\ tasks[t].aborted /\ tasks[t].delivered = 1 /\ tasks[t].abortedAt = 1
    /\ tasks[t].conn # tasks[u].conn
    /\ controllers[tasks[t].id] = 0
    /\ tasks[t].id \in activeRequests[tasks[t].conn]
    /\ tasks[t].id \notin activeRequests[tasks[u].conn]
    /\ readyState[tasks[t].conn] = "open" /\ readyState[tasks[u].conn] = "open"

\* the messages without an id that pass the envelope checks
Notifications == {m \in Messages : m.shape = "notification"}

\* C33: a message without an id is never answered and changes no
\* initialization flag, in-flight set, controller or invocation, whatever
\* its method; the connection's idle time restarts; if the method is exit
\* the socket is closing afterwards, otherwise it is as it was.
C33_NotificationIgnored ==
  [][\A c \in Conns, m \in Notifications :
       Receive(c, m)
         => /\ sent'.kind = "none"
            /\ initialized' = initialized
            /\ activeRequests' = activeRequests
            /\ controllers' = controllers
            /\ tasks' = tasks
            /\ clients' = clients
            /\ idle' = [idle EXCEPT ![c] = 0]
            /\ readyState' = [readyState EXCEPT
                                ![c] = IF m.method = "exit" THEN "closing" ELSE @]]_vars

\* before any shutdown, a registered connection that never initialized is
\* closing right after a message of its own (its idle time is 0 while the
\* other connection's is not) that was not answered: an exit notification
C33_Witness ==
  \E c \in Conns :
    /\ ~shutdownRequested
    /\ readyState[c] = "closing" /\ c \in Registered /\ c \in touched
    /\ ~initialized[c] /\ idle[c] = 0
    /\ sent.kind = "none"
    /\ \E d \in Conns \ {c} : readyState[d] = "open" /\ idle[d] > 0

\* C34: when the handling of a request fails after its id was added to the
\* connection's in-flight set (the handler throws, or the backend call of a
\* generate fails), the turn that reports the failure leaves the id out of
\* that set, whatever the id, 0 included.
C34_FailedRequestRemoved ==
  [][\A t \in Slots :
       (\/ (tasks[t].pc = "respond" /\ tasks[t].err # NoError /\ Respond(t))
        \/ (tasks[t].pc = "awaitGenerate" /\ \E f \in Failures : GenerateFail(t, f)))
         => tasks[t].id \notin activeRequests'[tasks[t].conn]]_vars

\* C35: while a generate or stream request waits for the backend and has
\* not been cancelled, the AbortController registered for it is still
\* registered, under its id, and is its own: no other request has replaced
\* or removed it.
C35_HandleOwnedByRequest ==
  \A t \in Slots :
    (AtBackend(tasks[t]) /\ ~tasks[t].aborted) => controllers[tasks[t].id] = t

\* C36: while a generate or stream invocation waits for the backend, the
\* server goes on taking up and answering messages: every request whose
\* handler has returned can be answered at once, and, as long as an
\* invocation slot is free and no continuation of another connection's
\* request is queued before it, every message of every open connection can
\* be taken up, the issuing connection's included.
C36_ProcessedWhileSuspended ==
  (\E t \in Slots : AtBackend(tasks[t]))
    => /\ \A u \in Slots : tasks[u].pc = "respond" => ENABLED Respond(u)
       /\ \A c \in Conns :
            (/\ readyState[c] = "open"
             /\ Live # Slots
             /\ \A u \in Slots : tasks[u].pc = "respond" => tasks[u].conn = c)
              => \A m \in Calls : ENABLED Receive(c, m)

\* a cancel request was just answered with its result on the connection
\* whose stream, one chunk delivered, still waits for the backend's next
\* chunk
C36_Witness ==
  /\ finished.method = "cancel" /\ finished.fin = "answered"
  /\ sent.kind = "result" /\ sent.to = finished.conn
  /\ \E t \in Slots :
       /\ tasks[t].method = "stream" /\ tasks[t].pc = "awaitChunk"
       /\ tasks[t].conn = finished.conn
       /\ tasks[t].delivered = 1 /\ tasks[t].delivered < MaxChunks

\* C37: when the backend fails in a stream that has yielded k chunks, on a
\* connection whose socket is open, the k done:false responses were emitted
\* and the failure is reported by one error response carrying the stream's
\* id, written to the connection that issued the stream; it is the
\* invocation's only terminal response (no done:true response).
C37_StreamFailureReported ==
  [][\A t \in Slots :
       (/\ tasks[t].pc = "awaitChunk"
        /\ readyState[tasks[t].conn] = "open"
        /\ \E f \in Failures : StreamFail(t, f))
         => /\ sent'.kind = "error"
            /\ sent'.id = tasks[t].id
            /\ sent'.to = tasks[t].conn
            /\ finished'.chunks = tasks[t].delivered
            /\ finished'.terminals = 1]_vars

\* C38: a request with an id and the method shutdown or exit, taken up on a
\* connection that has not initialized, is not rejected with the
\* NotInitialized error (-32002).
C38_ShutdownExitPastInitCheck ==
  [][\A c \in Conns, m \in Requests :
       (m.method \in {"shutdown", "exit"} /\ ~initialized[c] /\ Receive(c, m))
         => ~(sent'.kind = "error" /\ sent'.err.code = SERVER_NOT_INITIALIZED)]_vars
====
